---- MODULE Spec2Model ----
(***************************************************************************)
(* Model of the CSS selector builder of src/src/05-objects-tasks.js:       *)
(* class BaseSelector (lines 357-450) and the facade cssSelectorBuilder    *)
(* (lines 452-478).                                                        *)
(*                                                                         *)
(* JavaScript strings are sequences of one-character strings, so that      *)
(* String.prototype.includes, String.prototype.replace with a global      *)
(* regular expression and String.prototype.trim are computed the way the   *)
(* engine computes them.  A JavaScript value is a record with a tag:       *)
(* "string" (with its characters in s) or "undefined".                     *)
(***************************************************************************)
EXTENDS Integers, Sequences, FiniteSets, TLC

VARIABLES heap, origin, completion, throws, client

vars == <<heap, origin, completion, throws, client>>

-----------------------------------------------------------------------------
(* Bounds of the exploration *)

\* Selectors the client creates in one run when it keeps every one of them.
MaxObjs == 3

\* Fragments of the chain when the client builds a single chain.
MaxChain == 6

\* Exceptions the client catches in one run.
MaxThrows == 1

-----------------------------------------------------------------------------
(* JavaScript values and strings *)

Str(s) == [tag |-> "string", s |-> s]

Undefined == [tag |-> "undefined", s |-> <<>>]

IsString(v) == v.tag = "string"

\* The string literals of the source, character by character.
S_element == <<"e", "l", "e", "m", "e", "n", "t">>
S_id == <<"i", "d">>
S_class == <<"c", "l", "a", "s", "s">>
S_attr == <<"a", "t", "t", "r">>
S_pseudoClass == <<"p", "s", "e", "u", "d", "o", "C", "l", "a", "s", "s">>
S_pseudoElement == <<"p", "s", "e", "u", "d", "o", "E", "l", "e", "m", "e", "n", "t">>

\* Fragment values and combinator tokens the client passes.
Values == {<<"a">>, <<"i", "d">>}
Combinators == {<<" ">>, <<"+">>}

\* s.startsWith(p, at) for a 0-based position at.
MatchesAt(s, p, at) ==
    /\ at + Len(p) <= Len(s)
    /\ \A k \in 1..Len(p) : s[at + k] = p[k]

\* String.prototype.includes(sub)
Includes(s, sub) == \E at \in 0..Len(s) : MatchesAt(s, sub, at)

\* The first alternative of types (in order) matching s at position at;
\* 0 when none does.  A RegExp alternation tries its alternatives left to right.
FirstAlt(s, types, at) ==
    LET matching == {n \in 1..Len(types) : MatchesAt(s, types[n], at)}
    IN  IF matching = {} THEN 0
        ELSE CHOOSE n \in matching : \A m \in matching : n <= m

\* s.replace(new RegExp(types.join('|'), 'g'), '') scanning from position at:
\* every leftmost match is removed, the scan resumes after it.
RECURSIVE ReplaceFrom(_, _, _)
ReplaceFrom(s, types, at) ==
    IF at >= Len(s) THEN <<>>
    ELSE LET n == FirstAlt(s, types, at)
         IN  IF n = 0
             THEN <<s[at + 1]>> \o ReplaceFrom(s, types, at + 1)
             ELSE ReplaceFrom(s, types, at + Len(types[n]))

ReplaceAll(s, types) == ReplaceFrom(s, types, 0)

\* String.prototype.trim()
RECURSIVE TrimStart(_)
TrimStart(s) ==
    IF s # <<>> /\ Head(s) = " " THEN TrimStart(Tail(s)) ELSE s

RECURSIVE TrimEnd(_)
TrimEnd(s) ==
    IF s # <<>> /\ s[Len(s)] = " " THEN TrimEnd(SubSeq(s, 1, Len(s) - 1)) ELSE s

Trim(s) == TrimEnd(TrimStart(s))

\* Array.prototype.join(sep) over strings
RECURSIVE Join(_, _)
Join(parts, sep) ==
    IF parts = <<>> THEN <<>>
    ELSE IF Len(parts) = 1 THEN parts[1]
    ELSE parts[1] \o sep \o Join(Tail(parts), sep)

-----------------------------------------------------------------------------
(* class BaseSelector *)

NoMessage == "<no message property>"

OrderMessage == "Selector parts should be arranged in the following order: element, id, class, attribute, pseudo-class, pseudo-element"

RepeatMessage == "Element, id and pseudo-element should not occur more then one time inside the selector"

\* new BaseSelector(type, value)
BaseSelector(type, value) == [type |-> type, value |-> value, message |-> NoMessage]

NoResult == [type |-> Undefined, value |-> Undefined, message |-> NoMessage]

\* Template-literal conversion `${v}`
ToTemplate(v) ==
    IF IsString(v) THEN v.s ELSE <<"u", "n", "d", "e", "f", "i", "n", "e", "d">>

\* A completed call: what it returned or threw, and the receiver after it.
Return(this, result) ==
    [completion |-> "return", error |-> "none", message |-> NoMessage,
     this |-> this, result |-> result]

\* Reading a property of undefined
TypeError(this) ==
    [completion |-> "throw", error |-> "TypeError", message |-> NoMessage,
     this |-> this, result |-> NoResult]

\* throwOrderError() that also clears the categories the receiver records.
throwOrderError_ForgetsHistory(this) ==
    [completion |-> "throw", error |-> "Error", message |-> OrderMessage,
     this |-> [this EXCEPT !.message = OrderMessage, !.type = Str(<<>>)],
     result |-> NoResult]

throwOrderError(this) ==
    [completion |-> "throw", error |-> "Error", message |-> OrderMessage,
     this |-> [this EXCEPT !.message = OrderMessage], result |-> NoResult]

throwRepeatError(this) ==
    [completion |-> "throw", error |-> "Error", message |-> RepeatMessage,
     this |-> [this EXCEPT !.message = RepeatMessage], result |-> NoResult]

\* this.type.replace(regExp, '').trim().length === 0, for a string this.type
isValidType(this, types) == Len(Trim(ReplaceAll(this.type.s, types))) = 0

\* element() looking for element anywhere in the categories recorded.
element_Includes(this, value) ==
    IF ~IsString(this.type) THEN TypeError(this)
    ELSE IF Includes(this.type.s, S_element) THEN throwRepeatError(this)
    ELSE IF Len(this.type.s) > 0 THEN throwOrderError(this)
    ELSE Return(this, BaseSelector(Str(ToTemplate(this.type) \o <<" ">> \o S_element),
                                   Str(ToTemplate(this.value) \o ToTemplate(value))))

\* element() without its ordering check.
element_NoOrderCheck(this, value) ==
    IF this.type = Str(S_element) THEN throwRepeatError(this)
    ELSE IF ~IsString(this.type) THEN TypeError(this)
    ELSE Return(this, BaseSelector(Str(ToTemplate(this.type) \o <<" ">> \o S_element),
                                   Str(ToTemplate(this.value) \o ToTemplate(value))))

element(this, value) ==
    IF this.type = Str(S_element) THEN throwRepeatError(this)
    ELSE IF ~IsString(this.type) THEN TypeError(this)
    ELSE IF Len(this.type.s) > 0 THEN throwOrderError(this)
    ELSE Return(this, BaseSelector(Str(ToTemplate(this.type) \o <<" ">> \o S_element),
                                   Str(ToTemplate(this.value) \o ToTemplate(value))))

\* id() doing its ordering check before its uniqueness check.
id_OrderFirst(this, value) ==
    IF ~IsString(this.type) THEN TypeError(this)
    ELSE IF ~isValidType(this, <<S_element>>) THEN throwOrderError(this)
    ELSE IF Includes(this.type.s, S_id) THEN throwRepeatError(this)
    ELSE Return(this, BaseSelector(Str(ToTemplate(this.type) \o <<" ">> \o S_id),
                                   Str(ToTemplate(this.value) \o <<"#">> \o ToTemplate(value))))

\* id() that appends to the receiver and returns it.
id_Mutating(this, value) ==
    IF ~IsString(this.type) THEN TypeError(this)
    ELSE IF Includes(this.type.s, S_id) THEN throwRepeatError(this)
    ELSE IF ~isValidType(this, <<S_element>>) THEN throwOrderError(this)
    ELSE LET new == [this EXCEPT
                        !.type = Str(ToTemplate(this.type) \o <<" ">> \o S_id),
                        !.value = Str(ToTemplate(this.value) \o <<"#">> \o ToTemplate(value))]
         IN  Return(new, new)

id(this, value) ==
    IF ~IsString(this.type) THEN TypeError(this)
    ELSE IF Includes(this.type.s, S_id) THEN throwRepeatError(this)
    ELSE IF ~isValidType(this, <<S_element>>) THEN throwOrderError(this)
    ELSE Return(this, BaseSelector(Str(ToTemplate(this.type) \o <<" ">> \o S_id),
                                   Str(ToTemplate(this.value) \o <<"#">> \o ToTemplate(value))))

\* class() that does not allow class after class.
class_NoRepeat(this, value) ==
    IF ~IsString(this.type) THEN TypeError(this)
    ELSE IF ~isValidType(this, <<S_element, S_id>>) THEN throwOrderError(this)
    ELSE Return(this, BaseSelector(Str(ToTemplate(this.type) \o <<" ">> \o S_class),
                                   Str(ToTemplate(this.value) \o <<".">> \o ToTemplate(value))))

class(this, value) ==
    IF ~IsString(this.type) THEN TypeError(this)
    ELSE IF ~isValidType(this, <<S_element, S_id, S_class>>) THEN throwOrderError(this)
    ELSE Return(this, BaseSelector(Str(ToTemplate(this.type) \o <<" ">> \o S_class),
                                   Str(ToTemplate(this.value) \o <<".">> \o ToTemplate(value))))

\* attr() without its ordering check.
attr_Unchecked(this, value) ==
    IF ~IsString(this.type) THEN TypeError(this)
    ELSE Return(this, BaseSelector(Str(ToTemplate(this.type) \o <<" ">> \o S_attr),
                                   Str(ToTemplate(this.value) \o <<"[">> \o ToTemplate(value) \o <<"]">>)))

attr(this, value) ==
    IF ~IsString(this.type) THEN TypeError(this)
    ELSE IF ~isValidType(this, <<S_element, S_id, S_class, S_attr>>) THEN throwOrderError(this)
    ELSE Return(this, BaseSelector(Str(ToTemplate(this.type) \o <<" ">> \o S_attr),
                                   Str(ToTemplate(this.value) \o <<"[">> \o ToTemplate(value) \o <<"]">>)))

\* pseudoClass() that accepts a receiver holding a pseudo-element.
pseudoClass_AfterPseudoElement(this, value) ==
    IF ~IsString(this.type) THEN TypeError(this)
    ELSE IF ~isValidType(this, <<S_pseudoElement, S_element, S_id, S_class, S_attr, S_pseudoClass>>)
         THEN throwOrderError(this)
    ELSE Return(this, BaseSelector(Str(ToTemplate(this.type) \o <<" ">> \o S_pseudoClass),
                                   Str(ToTemplate(this.value) \o <<":">> \o ToTemplate(value))))

pseudoClass(this, value) ==
    IF ~IsString(this.type) THEN TypeError(this)
    ELSE IF ~isValidType(this, <<S_element, S_id, S_class, S_attr, S_pseudoClass>>)
         THEN throwOrderError(this)
    ELSE Return(this, BaseSelector(Str(ToTemplate(this.type) \o <<" ">> \o S_pseudoClass),
                                   Str(ToTemplate(this.value) \o <<":">> \o ToTemplate(value))))

pseudoElement(this, value) ==
    IF ~IsString(this.type) THEN TypeError(this)
    ELSE IF Includes(this.type.s, S_pseudoElement) THEN throwRepeatError(this)
    ELSE IF ~isValidType(this, <<S_element, S_id, S_class, S_attr, S_pseudoClass>>)
         THEN throwOrderError(this)
    ELSE Return(this, BaseSelector(Str(ToTemplate(this.type) \o <<" ">> \o S_pseudoElement),
                                   Str(ToTemplate(this.value) \o <<":", ":">> \o ToTemplate(value))))

\* stringify() that clears the accumulated value after reading it.
stringify_Reset(this) ==
    IF ~IsString(this.value) THEN TypeError(this)
    ELSE Return([this EXCEPT !.value = Str(<<>>)], Str(this.value.s))

\* this.value.toString()
stringify(this) ==
    IF ~IsString(this.value) THEN TypeError(this)
    ELSE Return(this, Str(this.value.s))

-----------------------------------------------------------------------------
(* const cssSelectorBuilder *)

cssSelectorBuilder_element(value) == BaseSelector(Str(S_element), value)

cssSelectorBuilder_id(value) == BaseSelector(Str(S_id), Str(<<"#">> \o ToTemplate(value)))

cssSelectorBuilder_class(value) == BaseSelector(Str(S_class), Str(<<".">> \o ToTemplate(value)))

cssSelectorBuilder_attr(value) ==
    BaseSelector(Str(S_attr), Str(<<"[">> \o ToTemplate(value) \o <<"]">>))

cssSelectorBuilder_pseudoClass(value) ==
    BaseSelector(Str(S_pseudoClass), Str(<<":">> \o ToTemplate(value)))

\* The facade's pseudoElement writing a single colon.
cssSelectorBuilder_pseudoElement_OneColon(value) ==
    BaseSelector(Str(S_pseudoElement), Str(<<":">> \o ToTemplate(value)))

cssSelectorBuilder_pseudoElement(value) ==
    BaseSelector(Str(S_pseudoElement), Str(<<":", ":">> \o ToTemplate(value)))

\* combine() joining its three parts without the separator.
cssSelectorBuilder_combine_NoSeparator(selector1, combinator, selector2) ==
    BaseSelector(Undefined,
                 Str(Join(<<selector1.value.s, combinator.s, selector2.value.s>>, <<>>)))

\* [selector1.value, combinator, selector2.value].join(' ')
cssSelectorBuilder_combine(selector1, combinator, selector2) ==
    BaseSelector(Undefined,
                 Str(Join(<<selector1.value.s, combinator.s, selector2.value.s>>, <<" ">>)))

-----------------------------------------------------------------------------
(* The client: calls on the facade and on the selectors it holds *)

\* origin[k] is the call that created heap[k] (a log kept beside the program).
FacadeOrigin(cat, v) ==
    [op |-> "facade", cat |-> cat, val |-> v, this |-> 0,
     left |-> 0, comb |-> <<>>, right |-> 0]

ChainOrigin(i, cat, v) ==
    [op |-> "chain", cat |-> cat, val |-> v, this |-> i,
     left |-> 0, comb |-> <<>>, right |-> 0]

CombineOrigin(i, c, j) ==
    [op |-> "combine", cat |-> "none", val |-> <<>>, this |-> 0,
     left |-> i, comb |-> c, right |-> j]

\* completion is the outcome of the latest call: the method, its receiver (0 for
\* the facade), and what it returned (a reference into heap, or a string) or threw.
Returned(call, i, ref, str) ==
    [call |-> call, this |-> i, completion |-> "return", error |-> "none",
     message |-> NoMessage, ref |-> ref, str |-> str]

Thrown(call, i, r) ==
    [call |-> call, this |-> i, completion |-> "throw", error |-> r.error,
     message |-> r.message, ref |-> 0, str |-> <<>>]

\* The client either keeps every selector it gets and calls anything on any of
\* them, catching what is thrown ("free"), or evaluates one chained expression
\* builder.x(..).y(..)...: each call is made on the selector the call before
\* returned, and a stringify() or a throw ends the expression ("chain"), or
\* holds one selector variable s and repeats try { s = s.x(..) } catch (e) {}:
\* each call is made on the latest selector, also after a throw ("retry").
Start(c) ==
    /\ heap = <<>>
    /\ origin = <<>>
    /\ completion = Returned("none", 0, 0, <<>>)
    /\ throws = 0
    /\ client = c

Init == Start("free")

InitChain == Start("chain")

InitRetry == Start("retry")

Limit == IF client = "chain" THEN MaxChain ELSE MaxObjs

\* The client can call the facade / a method of heap[i].
CanStart == client \in {"chain", "retry"} => heap = <<>>

CanCall(i) ==
    /\ client = "chain" => (i = Len(heap) /\ completion.ref = i)
    /\ client = "retry" => i = Len(heap)

\* A facade call: the new selector is stored in a fresh cell.
Facade(call, obj, org) ==
    /\ heap' = Append(heap, obj)
    /\ origin' = Append(origin, org)
    /\ completion' = Returned(call, 0, Len(heap) + 1, <<>>)
    /\ UNCHANGED <<throws, client>>

\* A fragment method called on heap[i], completed as r.
Chain(call, i, r, org) ==
    /\ CanCall(i)
    /\ Len(heap) < Limit \/ throws < MaxThrows
    /\ IF r.completion = "return"
       THEN /\ Len(heap) < Limit
            /\ heap' = Append([heap EXCEPT ![i] = r.this], r.result)
            /\ origin' = Append(origin, org)
            /\ completion' = Returned(call, i, Len(heap) + 1, <<>>)
            /\ UNCHANGED <<throws, client>>
       ELSE /\ throws < MaxThrows
            /\ heap' = [heap EXCEPT ![i] = r.this]
            /\ completion' = Thrown(call, i, r)
            /\ throws' = throws + 1
            /\ UNCHANGED <<origin, client>>

FacadeElement ==
    /\ CanStart
    /\ Len(heap) < Limit
    /\ \E v \in Values :
          Facade("builder.element", cssSelectorBuilder_element(Str(v)), FacadeOrigin("element", v))

FacadeId ==
    /\ CanStart
    /\ Len(heap) < Limit
    /\ \E v \in Values :
          Facade("builder.id", cssSelectorBuilder_id(Str(v)), FacadeOrigin("id", v))

FacadeClass ==
    /\ CanStart
    /\ Len(heap) < Limit
    /\ \E v \in Values :
          Facade("builder.class", cssSelectorBuilder_class(Str(v)), FacadeOrigin("class", v))

FacadeAttr ==
    /\ CanStart
    /\ Len(heap) < Limit
    /\ \E v \in Values :
          Facade("builder.attr", cssSelectorBuilder_attr(Str(v)), FacadeOrigin("attr", v))

FacadePseudoClass ==
    /\ CanStart
    /\ Len(heap) < Limit
    /\ \E v \in Values :
          Facade("builder.pseudoClass", cssSelectorBuilder_pseudoClass(Str(v)), FacadeOrigin("pseudoClass", v))

FacadePseudoElement ==
    /\ CanStart
    /\ Len(heap) < Limit
    /\ \E v \in Values :
          Facade("builder.pseudoElement", cssSelectorBuilder_pseudoElement(Str(v)), FacadeOrigin("pseudoElement", v))

Combine ==
    /\ client = "free"
    /\ Len(heap) < Limit
    /\ \E i, j \in DOMAIN heap, c \in Combinators :
          Facade("builder.combine", cssSelectorBuilder_combine(heap[i], Str(c), heap[j]),
                 CombineOrigin(i, c, j))

ChainElement ==
    \E i \in DOMAIN heap, v \in Values :
        Chain("element", i, element(heap[i], Str(v)), ChainOrigin(i, "element", v))

ChainId ==
    \E i \in DOMAIN heap, v \in Values :
        Chain("id", i, id(heap[i], Str(v)), ChainOrigin(i, "id", v))

ChainClass ==
    \E i \in DOMAIN heap, v \in Values :
        Chain("class", i, class(heap[i], Str(v)), ChainOrigin(i, "class", v))

ChainAttr ==
    \E i \in DOMAIN heap, v \in Values :
        Chain("attr", i, attr(heap[i], Str(v)), ChainOrigin(i, "attr", v))

ChainPseudoClass ==
    \E i \in DOMAIN heap, v \in Values :
        Chain("pseudoClass", i, pseudoClass(heap[i], Str(v)), ChainOrigin(i, "pseudoClass", v))

ChainPseudoElement ==
    \E i \in DOMAIN heap, v \in Values :
        Chain("pseudoElement", i, pseudoElement(heap[i], Str(v)), ChainOrigin(i, "pseudoElement", v))

Stringify ==
    \E i \in DOMAIN heap :
        LET r == stringify(heap[i])
        IN  /\ CanCall(i)
            /\ r.completion = "return"
            /\ heap' = [heap EXCEPT ![i] = r.this]
            /\ completion' = Returned("stringify", i, 0, r.result.s)
            /\ UNCHANGED <<origin, throws, client>>

Next ==
    \/ FacadeElement
    \/ FacadeId
    \/ FacadeClass
    \/ FacadeAttr
    \/ FacadePseudoClass
    \/ FacadePseudoElement
    \/ Combine
    \/ ChainElement
    \/ ChainId
    \/ ChainClass
    \/ ChainAttr
    \/ ChainPseudoClass
    \/ ChainPseudoElement
    \/ Stringify

Spec == Init /\ [][Next]_vars

NextChain ==
    \/ FacadeElement
    \/ FacadeId
    \/ FacadeClass
    \/ FacadeAttr
    \/ FacadePseudoClass
    \/ FacadePseudoElement
    \/ ChainElement
    \/ ChainId
    \/ ChainClass
    \/ ChainAttr
    \/ ChainPseudoClass
    \/ ChainPseudoElement
    \/ Stringify

SpecChain == InitChain /\ [][NextChain]_vars

SpecRetry == InitRetry /\ [][NextChain]_vars

-----------------------------------------------------------------------------
(* What the calls made so far are expected to have built *)

\* The fixed order of the fragment categories, under the names the methods have.
Categories == <<"element", "id", "class", "attr", "pseudoClass", "pseudoElement">>

CategorySet == {Categories[n] : n \in DOMAIN Categories}

Rank(c) == CHOOSE n \in DOMAIN Categories : Categories[n] = c

\* this[c](value): the fragment method named c.
Method(c, this, value) ==
    CASE c = "element" -> element(this, value)
      [] c = "id" -> id(this, value)
      [] c = "class" -> class(this, value)
      [] c = "attr" -> attr(this, value)
      [] c = "pseudoClass" -> pseudoClass(this, value)
      [] c = "pseudoElement" -> pseudoElement(this, value)

ChainCalls == CategorySet

FacadeCalls ==
    {"builder.element", "builder.id", "builder.class", "builder.attr",
     "builder.pseudoClass", "builder.pseudoElement"}

\* heap[k] was built by a facade start call followed by chain extensions only.
RECURSIVE IsChain(_)
IsChain(k) ==
    \/ origin[k].op = "facade"
    \/ origin[k].op = "chain" /\ IsChain(origin[k].this)

IsCombined(k) == origin[k].op = "combine"

\* The categories applied to heap[k], in call order (none for a combine result).
RECURSIVE History(_)
History(k) ==
    CASE origin[k].op = "facade" -> <<origin[k].cat>>
      [] origin[k].op = "chain" -> Append(History(origin[k].this), origin[k].cat)
      [] origin[k].op = "combine" -> <<>>

\* The syntax of one fragment.
Syntax(c, v) ==
    CASE c = "element" -> v
      [] c = "id" -> <<"#">> \o v
      [] c = "class" -> <<".">> \o v
      [] c = "attr" -> <<"[">> \o v \o <<"]">>
      [] c = "pseudoClass" -> <<":">> \o v
      [] c = "pseudoElement" -> <<":", ":">> \o v

\* The string the calls that built heap[k] are expected to render.
RECURSIVE Expected(_)
Expected(k) ==
    CASE origin[k].op = "facade" -> Syntax(origin[k].cat, origin[k].val)
      [] origin[k].op = "chain" ->
            Expected(origin[k].this) \o Syntax(origin[k].cat, origin[k].val)
      [] origin[k].op = "combine" ->
            Expected(origin[k].left) \o <<" ">> \o origin[k].comb \o <<" ">>
                \o Expected(origin[k].right)

Occurrences(h, c) == Cardinality({p \in DOMAIN h : h[p] = c})

NonDecreasing(h) == \A p, q \in DOMAIN h : p < q => Rank(h[p]) <= Rank(h[q])

\* element -> id -> class -> attribute -> pseudo-class -> pseudo-element, each
\* optional, class / attribute / pseudo-class repeatable.
ValidOrder(h) ==
    /\ NonDecreasing(h)
    /\ \A c \in {"element", "id", "pseudoElement"} : Occurrences(h, c) <= 1

Failed(r, message) ==
    /\ r.completion = "throw"
    /\ r.error = "Error"
    /\ r.message = message

TypeOK ==
    /\ Len(heap) <= Limit
    /\ Len(origin) = Len(heap)
    /\ throws \in 0..MaxThrows

-----------------------------------------------------------------------------
(* Claims *)

\* The latest call was the fragment method c, made on a selector.
CalledOnSelector == completion.call \in ChainCalls /\ completion.this # 0

\* C1: a chain started on the facade and extended in a valid order (element,
\* id, class, attribute, pseudo-class, pseudo-element; class, attribute and
\* pseudo-class repeatable) is built without error: every extension that keeps
\* the order valid returns a selector, and stringify() returns the fragments'
\* syntax concatenated in call order, without separators.
C1_ValidChainRendersConcatenation ==
    /\ (/\ CalledOnSelector
        /\ IsChain(completion.this)
        /\ ValidOrder(Append(History(completion.this), completion.call)))
           => /\ completion.completion = "return"
              /\ completion.ref = Len(heap)
    /\ \A k \in DOMAIN heap :
          (IsChain(k) /\ ValidOrder(History(k))) =>
             stringify(heap[k]) = Return(heap[k], Str(Expected(k)))
    /\ (completion.call = "stringify" /\ IsChain(completion.this)) =>
          completion.str = Expected(completion.this)

\* C1 witness: the chain element, id, class, class, attr, pseudoClass has been
\* built and stringified.
C1_Witness ==
    /\ completion.call = "stringify"
    /\ completion.completion = "return"
    /\ History(completion.this)
          = <<"element", "id", "class", "class", "attr", "pseudoClass">>

\* C2: appending element to a chain whose history already holds element, or
\* pseudo-element to one that already holds pseudo-element, fails with the
\* repeated-category error and its exact message, whatever was appended in
\* between (the uniqueness check comes before the ordering check).
C2_RepeatedElementOrPseudoElementIsRepeatError ==
    (/\ CalledOnSelector
     /\ completion.call \in {"element", "pseudoElement"}
     /\ Occurrences(History(completion.this), completion.call) > 0)
        => Failed(completion, RepeatMessage)

RepeatsUnique(h, c) == c \in {"element", "id"} /\ Occurrences(h, c) > 0

C4_CombineJoinsWithSingleSpaces ==
    /\ \A i, j \in DOMAIN heap, c \in Combinators :
          stringify(cssSelectorBuilder_combine(heap[i], Str(c), heap[j])).result.s
             = stringify(heap[i]).result.s \o <<" ">> \o c \o <<" ">>
                  \o stringify(heap[j]).result.s
    /\ \A k \in DOMAIN heap :
          IsCombined(k) => stringify(heap[k]).result = Str(Expected(k))
    /\ (completion.call = "stringify" /\ IsCombined(completion.this)) =>
          completion.str = Expected(completion.this)

\* C4 witness: a combine of a combine result and a chain with the single-space
\* combinator has been stringified.
C4_Witness ==
    /\ completion.call = "stringify"
    /\ IsCombined(completion.this)
    /\ origin[completion.this].comb = <<" ">>
    /\ IsCombined(origin[completion.this].left)
    /\ IsChain(origin[completion.this].right)

\* C5: a combine result carries no category record, and every fragment method
\* called on it succeeds and appends the fragment's syntax to the combined string.
C5_FragmentOnCombinedSucceeds ==
    /\ \A k \in DOMAIN heap : IsCombined(k) => heap[k].type = Undefined
    /\ (CalledOnSelector /\ IsCombined(completion.this))
           => /\ completion.completion = "return"
              /\ heap[completion.ref].value
                    = Str(Expected(completion.this)
                             \o Syntax(completion.call, origin[completion.ref].val))

\* C6: a successful chain extension and a combine return a new selector and
\* leave every existing selector as it was, so two extensions of one partial
\* chain each consist of the base and their own fragment only.
C6_BuildingDoesNotMutate ==
    [][(/\ completion'.completion = "return"
        /\ completion'.call \in ChainCalls \cup {"builder.combine"})
          => /\ Len(heap') = Len(heap) + 1
             /\ completion'.ref = Len(heap')
             /\ \A k \in DOMAIN heap : heap'[k] = heap[k]
             /\ \A k \in DOMAIN heap' :
                   origin'[k].op = "chain" =>
                      heap'[k].value
                         = Str(heap'[origin'[k].this].value.s
                                  \o Syntax(origin'[k].cat, origin'[k].val))]_vars

\* C6 witness: one selector is the base of two different extensions.
C6_Witness ==
    \E k1, k2 \in DOMAIN heap :
        /\ k1 # k2
        /\ origin[k1].op = "chain"
        /\ origin[k2].op = "chain"
        /\ origin[k1].this = origin[k2].this
        /\ origin[k1].cat # origin[k2].cat
        /\ origin[k1].val # origin[k2].val

\* The type string a facade call records for a category.
TypeName(c) ==
    CASE c = "element" -> S_element
      [] c = "id" -> S_id
      [] c = "class" -> S_class
      [] c = "attr" -> S_attr
      [] c = "pseudoClass" -> S_pseudoClass
      [] c = "pseudoElement" -> S_pseudoElement

\* C7: a facade start call creates a root selector whose category record is the
\* single category of the call and whose rendered string is that fragment's
\* syntax, whatever was built, combined, stringified or failed before.
C7_FacadeStartsFreshRoot ==
    \A k \in DOMAIN heap :
        origin[k].op = "facade" =>
           /\ heap[k].type = Str(TypeName(origin[k].cat))
           /\ heap[k].value = Str(Syntax(origin[k].cat, origin[k].val))

\* C7 witness: a facade call returned after a combine and a failed call.
C7_Witness ==
    /\ completion.call \in FacadeCalls
    /\ completion.ref > 1
    /\ throws > 0
    /\ \E j \in 1..(completion.ref - 1) : IsCombined(j)

\* C8: stringify() only reads: it returns the selector's string, the same at
\* every call, and changes no selector.
C8_StringifyIsPureRead ==
    [][completion'.call = "stringify"
          => /\ completion'.completion = "return"
             /\ completion'.str = Expected(completion'.this)
             /\ heap' = heap
             /\ origin' = origin]_vars

\* C8 witness: stringify() returned on a selector on which a call had failed.
C8_Witness ==
    /\ completion.call = "stringify"
    /\ heap[completion.this].message # NoMessage
    /\ Len(History(completion.this)) > 1

\* C9: the category history of every selector built by a facade start call and
\* successful chain extensions is non-decreasing in the fixed order, holds
\* element and pseudo-element at most once, and is what the selector records.
C9_HistoryIsOrdered ==
    \A k \in DOMAIN heap :
        IsChain(k) =>
           /\ NonDecreasing(History(k))
           /\ Occurrences(History(k), "element") <= 1
           /\ Occurrences(History(k), "pseudoElement") <= 1
           /\ heap[k].type
                 = Str(Join([p \in DOMAIN History(k) |-> TypeName(History(k)[p])], <<" ">>))

\* C9 witness: the chain element, id, class, attr, pseudoClass, pseudoElement
\* has been built.
C9_Witness ==
    \E k \in DOMAIN heap :
        History(k) = <<"element", "id", "class", "attr", "pseudoClass", "pseudoElement">>

\* C10: a chain-extension call on any selector either succeeds or fails with
\* the repeated-category error or the order error; nothing else is thrown.
C10_OnlyTwoErrorKinds ==
    completion.completion = "throw" =>
       /\ completion.error = "Error"
       /\ completion.message \in {RepeatMessage, OrderMessage}

\* C11: id(..) called on a selector whose history already holds id fails with
\* the repeated-category error and its exact message, also when a later
\* category has been appended since (the uniqueness check comes before the
\* ordering check), and creates no selector; so id occurs at most once in the
\* history of every selector.
C11_IdRepeatTakesPrecedence ==
    /\ (/\ CalledOnSelector
        /\ completion.call = "id"
        /\ Occurrences(History(completion.this), "id") > 0)
           => /\ Failed(completion, RepeatMessage)
              /\ completion.ref = 0
    /\ \A k \in DOMAIN heap :
          /\ Occurrences(History(k), "id") <= 1
          /\ Occurrences(History(k), "id") > 0 =>
                \A v \in Values : Failed(id(heap[k], Str(v)), RepeatMessage)

\* C11 witness: id(..) was called on the chain id, class and threw the
\* repeated-category error.
C11_Witness ==
    /\ CalledOnSelector
    /\ completion.call = "id"
    /\ History(completion.this) = <<"id", "class">>
    /\ Failed(completion, RepeatMessage)

\* C12: a chain-extension call that fails with the repeated-category error or
\* the order error creates no selector and leaves the string and the categories
\* of its receiver (and every other selector) as they were, so stringify() on
\* the receiver returns what it returned before; and every call the client
\* makes on a receiver on which a call has failed completes as it does on the
\* selector as it was built: an extension that was legal returns the same
\* selector, one that was not throws the same error.
C12_FailedCallLeavesReceiver ==
    [][/\ (completion'.completion = "throw" /\ completion'.error = "Error")
            => LET i == completion'.this
               IN  /\ completion'.message \in {RepeatMessage, OrderMessage}
                   /\ Len(heap') = Len(heap)
                   /\ origin' = origin
                   /\ \A k \in DOMAIN heap : k # i => heap'[k] = heap[k]
                   /\ heap'[i].type = heap[i].type
                   /\ heap'[i].value = heap[i].value
                   /\ stringify(heap'[i]).completion = "return"
                   /\ stringify(heap'[i]).result = stringify(heap[i]).result
       /\ (completion'.this # 0 /\ heap[completion'.this].message # NoMessage)
            => LET i == completion'.this
                   built == BaseSelector(heap[i].type, heap[i].value)
               IN  /\ heap[i].type = Str(Join([p \in DOMAIN History(i) |->
                                                  TypeName(History(i)[p])], <<" ">>))
                   /\ heap[i].value = Str(Expected(i))
                   /\ completion'.call = "stringify"
                         => /\ completion'.completion = "return"
                            /\ Str(completion'.str) = stringify(built).result
                   /\ completion'.call \in ChainCalls
                         => \A v \in Values :
                               LET r == Method(completion'.call, built, Str(v))
                               IN  /\ r.completion = completion'.completion
                                   /\ r.message = completion'.message
                                   /\ (r.completion = "return"
                                          /\ v = origin'[completion'.ref].val)
                                         => heap'[completion'.ref] = r.result]_vars

\* C12 witness: an extension returned a selector after a call on the same
\* receiver had thrown the order error.
C12_Witness ==
    /\ CalledOnSelector
    /\ completion.completion = "return"
    /\ heap[completion.this].message = OrderMessage
    /\ heap[completion.ref].value = Str(Expected(completion.ref))

\* No fragment follows a pseudo-element in the history h.
PseudoElementLast(h) == \A p \in DOMAIN h : h[p] = "pseudoElement" => p = Len(h)

\* C13 as stated: on a selector whose history holds pseudo-element every
\* chain-extension call fails, pseudoElement with the repeated-category error
\* and element, id, class, attr and pseudoClass with the order error; no
\* selector has a fragment after its pseudo-element.
C13_AfterPseudoElementAllFail ==
    /\ (CalledOnSelector /\ Occurrences(History(completion.this), "pseudoElement") > 0)
           => Failed(completion, IF completion.call = "pseudoElement"
                                 THEN RepeatMessage ELSE OrderMessage)
    /\ \A k \in DOMAIN heap : PseudoElementLast(History(k))

\* The error of the fragment method c on a history h that holds pseudo-element.
AfterPseudoElementMessage(h, c) ==
    IF c = "pseudoElement" \/ (c = "id" /\ Occurrences(h, "id") > 0)
    THEN RepeatMessage
    ELSE OrderMessage

\* C13 amended: on a selector whose history holds pseudo-element every
\* chain-extension call fails and creates no selector: pseudoElement with the
\* repeated-category error, id with the repeated-category error when the
\* history also holds id and with the order error otherwise, and element,
\* class, attr and pseudoClass with the order error; no selector has a
\* fragment after its pseudo-element.
C13_AfterPseudoElementAllFailIdRepeatFirst ==
    /\ (CalledOnSelector /\ Occurrences(History(completion.this), "pseudoElement") > 0)
           => /\ Failed(completion,
                        AfterPseudoElementMessage(History(completion.this), completion.call))
              /\ completion.ref = 0
    /\ \A k \in DOMAIN heap : PseudoElementLast(History(k))

\* C13 witness: pseudoClass(..) was called on the chain element, pseudoClass,
\* pseudoElement and threw the order error.
C13_Witness ==
    /\ CalledOnSelector
    /\ completion.call = "pseudoClass"
    /\ History(completion.this) = <<"element", "pseudoClass", "pseudoElement">>
    /\ Failed(completion, OrderMessage)

\* The error of element(..) on a selector with history h.
ElementMessage(h) == IF h = <<"element">> THEN RepeatMessage ELSE OrderMessage

\* C14: element(..) called on a selector built by a facade start call and
\* chain extensions never returns: it throws the repeated-category error exactly
\* when the history of the receiver is the single category element, and the
\* order error on every other such receiver; so element, when a history holds
\* it, is the first category of the history.
C14_ElementOnlyFirst ==
    /\ (/\ CalledOnSelector
        /\ completion.call = "element"
        /\ IsChain(completion.this))
           => /\ Failed(completion, ElementMessage(History(completion.this)))
              /\ completion.ref = 0
    /\ \A k \in DOMAIN heap :
          IsChain(k) =>
             /\ \A p \in DOMAIN History(k) : History(k)[p] = "element" => p = 1
             /\ \A v \in Values :
                   Failed(element(heap[k], Str(v)), ElementMessage(History(k)))

\* C14 witness: element(..) was called on the chain element, class and threw
\* the order error.
C14_Witness ==
    /\ CalledOnSelector
    /\ completion.call = "element"
    /\ History(completion.this) = <<"element", "class">>
    /\ Failed(completion, OrderMessage)

====
